---- MODULE Spec2Model ----
(***************************************************************************)
(* Model of the visual diff worker of site2ts: diff() in                   *)
(* node/site2ts-worker/src/diff.ts together with run() and ensureDeps()    *)
(* of utils.ts.  diff() is one async function; every await is a step of    *)
(* the state machine, and everything the environment decides (files on     *)
(* disk, child process outcomes, port discovery, HTTP answers, browser     *)
(* renders) is drawn with \E at the step that observes it.                 *)
(*                                                                         *)
(* Abstractions: strings are sequences of one-character strings where the  *)
(* code transforms them; a PNG is [width, height, data] with one small     *)
(* integer per pixel (a diff image, whose colours are read back, has four  *)
(* bytes per pixel); diffRatio and avg are exact fractions [num, den]      *)
(* (floating point rounding is not modelled); a progress event keeps its   *)
(* phase and, for per-route events, the index of the route it is about.    *)
(*                                                                         *)
(* A second specification, SpecFn, applies the pure helper functions of    *)
(* diff.ts (the comparison of two images, isDiffPixel, buildHeatmap,       *)
(* summarizeZones, routeToFolder) to arguments drawn from bounded sets.    *)
(*                                                                         *)
(* Line numbers in the comments are those of the current diff.ts           *)
(* (src/unnamed/part_007) and utils.ts (src/unnamed/part_009).             *)
(***************************************************************************)
EXTENDS Integers, Sequences, FiniteSets, TLC

\* ---------------------------------------------------------------- bounds
MaxRoutes == 2
\* For the helper functions applied on their own: the pixels of an image
\* that is compared, the width and height of an image that buildHeatmap
\* gets, the characters of a route that routeToFolder gets, and the zones
\* that summarizeZones gets.
MaxPixels == 4
MaxHeatSide == 5
MaxRouteLen == 4
MaxZones == 2

\* The landmarks of a page that vary freely (after a run of plain ones).
MaxNodes == 2

\* ------------------------------------------------------ program constants
DefaultPort == 3100
BuildTimeoutMs == 300000
InstallTimeoutMs == 300000
ReadyTimeoutMs == 30000
RetryIntervalMs == 500

ErrAnalysisMissing == -32004
ErrGenerationMissing == -32005
ErrInternal == -32603
ErrBuild == -32008
ErrInstall == -32009

\* diff.ts 332: the smallest side of a landmark that is captured.
MinZoneSide == 32
\* diff.ts 336: the class names that enter the key and the label.
KeyClasses == 6
\* diff.ts 368: the cap of the captured list.
MaxCaptured == 24
\* diff.ts 390: the class names of a selector.
SelectorClasses == 3

\* ------------------------------------------------------------ value sets
Undefined == "undefined"
\* serverProc is null or the handle spawnServer returned.
NoProc == [spawned |-> FALSE, port |-> 0]
NoError == [code |-> 0, name |-> "none", step |-> "", timeoutMs |-> 0,
            exitCode |-> 0, stdout |-> "", stderr |-> "", has |-> {}]

\* What a child process can write to its pipes.
Outputs == {"", "log"}

\* The events a spawned child can end with (utils.ts run): it exits with a
\* code, it is killed by a signal (close carries a null code) either by
\* run's own timer or by somebody else, or it cannot be spawned at all.
ChildEnds ==
  { [event |-> "close", code |-> c, signal |-> FALSE, timer |-> FALSE,
     stdout |-> o, stderr |-> e] : c \in {0, 1}, o \in Outputs, e \in Outputs }
  \cup
  { [event |-> "close", code |-> 0, signal |-> TRUE, timer |-> t,
     stdout |-> o, stderr |-> "" ] : t \in BOOLEAN, o \in Outputs }
  \cup
  { [event |-> "error", code |-> 0, signal |-> FALSE, timer |-> FALSE,
     stdout |-> "", stderr |-> ""] }

\* Mutant: a close event without exit code resolves with code 1.
runNullCodeFails(end) ==
  [rejected |-> end.event = "error",
   code     |-> IF end.signal THEN 1 ELSE end.code,
   stdout   |-> end.stdout,
   stderr   |-> end.stderr,
   timedOut |-> end.timer]

\* utils.ts run(): what the promise settles with.  A close event resolves
\* with code ?? 0, so a signal-killed child resolves with code 0; timedOut
\* is set only by run's own timer; an error event rejects.
run(end) ==
  [rejected |-> end.event = "error",
   code     |-> IF end.signal THEN 0 ELSE end.code,
   stdout   |-> end.stdout,
   stderr   |-> end.stderr,
   timedOut |-> end.timer]

\* No child has ended.
NoEnd == [event |-> "none", code |-> 0, signal |-> FALSE, timer |-> FALSE,
          stdout |-> "", stderr |-> ""]

\* No run() has settled.
NoRun == [rejected |-> FALSE, code |-> -1, stdout |-> "", stderr |-> "", timedOut |-> FALSE]

\* utils.ts rpcError(code, message, data)
rpcError(code, name, data) ==
  [code |-> code, name |-> name, step |-> data.step, timeoutMs |-> data.timeoutMs,
   exitCode |-> data.exitCode, stdout |-> data.stdout, stderr |-> data.stderr,
   has |-> data.has]

NoData == [step |-> "", timeoutMs |-> 0, exitCode |-> 0, stdout |-> "",
           stderr |-> "", has |-> {}]

TimeoutData(step, ms) ==
  [step |-> step, timeoutMs |-> ms, exitCode |-> 0, stdout |-> "", stderr |-> "",
   has |-> {"step", "timeoutMs"}]

ExitData(step, res) ==
  [step |-> step, timeoutMs |-> 0, exitCode |-> res.code, stdout |-> res.stdout,
   stderr |-> res.stderr, has |-> {"step", "exitCode", "stdout", "stderr"}]

\* An exception that is not an rpcError (TypeError, SyntaxError, spawn error).
NativeError(name) == rpcError(0, name, NoData)


\* ------------------------------------------------------------ fractions
\* diffRatio, threshold and avg are numbers in the code; here exact fractions.
Frac(n, d) == [num |-> n, den |-> d]
FracLeq(a, b) == a.num * b.den <= b.num * a.den

\* The thresholds the caller may pass (index.ts defaults to 0.01).
Thresholds == { Frac(1, 100), Frac(1, 2) }

\* ---------------------------------------------------------------- images
Png(w, h, d) == [width |-> w, height |-> h, data |-> d]
NoImage == Png(0, 0, << >>)
\* The screenshots a render may produce.
Images == { Png(1, 1, <<1>>), Png(2, 1, <<0, 1>>), Png(2, 1, <<0, 0>>) }

\* The crawl cache: the snap.png stored under the hash of a source URL.
\* Whether it can be read is decided when diff() reads it.
Snapshot(sourceUrl) == IF sourceUrl = "u1" THEN Png(2, 1, <<0, 1>>) ELSE Png(1, 1, <<1>>)

Min(a, b) == IF a < b THEN a ELSE b

\* Mutant: the rows are copied as if the source were as wide as the target.
CropNoStride(png, width, height) ==
  IF png.width # width \/ png.height # height
  THEN Png(width, height, SubSeq(png.data, 1, width * height))
  ELSE png

\* diff.ts 191-208: an image of another size than width x height is copied
\* row by row from offset (0, 0) into a new width x height image.
Crop(png, width, height) ==
  IF png.width # width \/ png.height # height
  THEN Png(width, height,
           [i \in 1..(width * height) |->
              png.data[((i - 1) \div width) * png.width + ((i - 1) % width) + 1]])
  ELSE png

\* pixelmatch(img1, img2, out, width, height, {threshold}): the number of
\* pixels that differ (the per-pixel colour tolerance is abstracted to
\* inequality of the pixel values).
pixelmatch(d1, d2, width, height) ==
  Cardinality({ i \in 1..(width * height) : d1[i] # d2[i] })

\* Mutant: the ratio is computed without the guard for an empty region.
CompareRatioUnguarded(baselinePng, actualPng) ==
  LET width == Min(baselinePng.width, actualPng.width)
      height == Min(baselinePng.height, actualPng.height)
  IN  Frac(pixelmatch(Crop(baselinePng, width, height).data,
                      Crop(actualPng, width, height).data, width, height),
           width * height)

\* diff.ts 186-215: the comparison of one route; the ratio it reports.
CompareRatio(baselinePng, actualPng) ==
  LET width == Min(baselinePng.width, actualPng.width)
      height == Min(baselinePng.height, actualPng.height)
      baselineCrop == Crop(baselinePng, width, height)
      actualCrop == Crop(actualPng, width, height)
      changed == pixelmatch(baselineCrop.data, actualCrop.data, width, height)
      total == width * height
  IN  IF total # 0 THEN Frac(changed, total) ELSE Frac(0, 1)

\* Mutant: a pixel that does not differ is copied through as it is.
drawPixelCopied(p1, p2) ==
  IF p1 # p2 THEN <<255, 0, 0, 255>>
  ELSE LET val == IF p1 = 0 THEN 0 ELSE 255 IN <<val, val, val, 255>>

\* pixelmatch also draws its output image, four bytes (r, g, b, a) per
\* pixel: a pixel that differs is drawn in the diff colour, red; a pixel
\* that does not is drawn as the grey of the first image blended with white
\* (229 for a black pixel, 255 for a white one), opaque.  The detection of
\* anti-aliased pixels is not modelled.
drawPixel(p1, p2) ==
  IF p1 # p2 THEN <<255, 0, 0, 255>>
  ELSE LET val == IF p1 = 0 THEN 229 ELSE 255 IN <<val, val, val, 255>>

\* diff.ts 210-213: diffPng after the call of pixelmatch.
DiffPng(d1, d2, width, height) ==
  Png(width, height,
      [k \in 1..(4 * width * height) |->
         drawPixel(d1[((k - 1) \div 4) + 1], d2[((k - 1) \div 4) + 1])[((k - 1) % 4) + 1]])

\* Mutant: a transparent pixel is classified like an opaque one.
isDiffPixelIgnoringAlpha(data, idx) ==
  LET r == data[idx + 1]
      g == data[idx + 2]
      b == data[idx + 3]
  IN  ~(r >= 220 /\ g >= 220 /\ b >= 220)

\* diff.ts 612-625 (idx is the byte offset of the pixel, from 0)
isDiffPixel(data, idx) ==
  LET r == data[idx + 1]
      g == data[idx + 2]
      b == data[idx + 3]
      a == data[idx + 4]
      isHighlightRed == r >= 200 /\ g <= 80 /\ b <= 80
      isHighlightGreen == g >= 200 /\ r <= 80 /\ b <= 80
      isHighlightBlue == b >= 200 /\ r <= 80 /\ g <= 80
      isHighlightYellow == r >= 200 /\ g >= 200 /\ b <= 80
      nearlyWhite == r >= 220 /\ g >= 220 /\ b >= 220
  IN  IF a = 0 THEN FALSE
      ELSE IF isHighlightRed \/ isHighlightGreen \/ isHighlightBlue \/ isHighlightYellow
      THEN TRUE
      ELSE ~nearlyWhite

\* The decimal digits of a number, as a template literal prints it.
Digits == <<"0", "1", "2", "3", "4", "5", "6", "7", "8", "9">>

RECURSIVE ToDecimal(_)
ToDecimal(n) ==
  IF n < 10 THEN <<Digits[n + 1]>>
  ELSE ToDecimal(n \div 10) \o <<Digits[(n % 10) + 1]>>

\* diff.ts 417: `r${r}c${c}`
CellName(r, c) == <<"r">> \o ToDecimal(r) \o <<"c">> \o ToDecimal(c)

\* diff.ts 400-401, 444-446: the pixel indexes the loops over the data visit.
PixelIndexes(png) == 0..((Len(png.data) \div 4) - 1)

\* Mutant: y / height and x / width are truncated before they are scaled.
CellIndexTruncated(pixelIndex, width, height, rows, cols) ==
  LET x == pixelIndex % width
      y == pixelIndex \div width
      row == Min(rows - 1, (y \div height) * rows)
      col == Min(cols - 1, (x \div width) * cols)
  IN  row * cols + col

\* Mutant: the column is not clamped to the grid and not scaled by the width.
CellIndexUnscaled(pixelIndex, width, height, rows, cols) ==
  LET x == pixelIndex % width
      y == pixelIndex \div width
      row == Min(rows - 1, (y * rows) \div height)
  IN  row * cols + x

\* diff.ts 402-406: the cell a pixel is counted in.  y / height * rows is
\* computed in floating point; its floor is that of the exact quotient.
CellIndex(pixelIndex, width, height, rows, cols) ==
  LET x == pixelIndex % width
      y == pixelIndex \div width
      row == Min(rows - 1, (y * rows) \div height)
      col == Min(cols - 1, (x * cols) \div width)
  IN  row * cols + col

\* diff.ts 397-409: the two counters of a cell after the loop over the pixels.
cellTotals(diffPng, width, height, rows, cols) ==
  [cellIndex \in 0..(rows * cols - 1) |->
     Cardinality({ p \in PixelIndexes(diffPng) :
                     CellIndex(p, width, height, rows, cols) = cellIndex })]

cellChanged(diffPng, width, height, rows, cols) ==
  [cellIndex \in 0..(rows * cols - 1) |->
     Cardinality({ p \in PixelIndexes(diffPng) :
                     /\ CellIndex(p, width, height, rows, cols) = cellIndex
                     /\ isDiffPixel(diffPng.data, 4 * p) })]

\* diff.ts 396-421
buildHeatmap(diffPng, width, height, rows, cols) ==
  LET totals == cellTotals(diffPng, width, height, rows, cols)
      changes == cellChanged(diffPng, width, height, rows, cols)
  IN  [i \in 1..(rows * cols) |->
         LET r == (i - 1) \div cols
             c == (i - 1) % cols
             total == totals[r * cols + c]
             changed == changes[r * cols + c]
         IN  [cell |-> CellName(r, c),
              ratio |-> IF total # 0 THEN Frac(changed, total) ELSE Frac(0, 1)]]

\* ------------------------------------------------------------ DOM zones
\* The bounds of a captured zone are floating point numbers; here x, y,
\* width and height of an input zone count half pixels (3 is 1.5 px).
\* The bounds of a reported zone are whole pixels.
Max(a, b) == IF a > b THEN a ELSE b
Floor(halves) == halves \div 2
Ceil(halves) == -((-halves) \div 2)

\* diff.ts 426-442: the clipped box of a zone and its area.
ZoneStat(zone, width, height) ==
  LET x1 == Max(0, Floor(zone.bounds.x))
      y1 == Max(0, Floor(zone.bounds.y))
      x2 == Min(width, Ceil(zone.bounds.x + zone.bounds.width))
      y2 == Min(height, Ceil(zone.bounds.y + zone.bounds.height))
  IN  [selector |-> zone.selector,
       bounds |-> [x |-> x1, y |-> y1, width |-> Max(0, x2 - x1), height |-> Max(0, y2 - y1)],
       x1 |-> x1, y1 |-> y1, x2 |-> x2, y2 |-> y2,
       total |-> Max(0, (x2 - x1) * (y2 - y1))]

\* diff.ts 444-454: zone.changed after the loop over the pixels.
ZoneChanged(stat, diffPng, width) ==
  Cardinality({ p \in PixelIndexes(diffPng) :
                  /\ isDiffPixel(diffPng.data, 4 * p)
                  /\ (p % width) >= stat.x1 /\ (p % width) < stat.x2
                  /\ (p \div width) >= stat.y1 /\ (p \div width) < stat.y2 })

\* diff.ts 457: the zones that are kept.
ZoneKept(stat) == stat.total > 0

\* diff.ts 456-457: stats.filter((zone) => zone.total > 0)
RECURSIVE FilterKept(_)
FilterKept(stats) ==
  IF stats = << >> THEN << >>
  ELSE (IF ZoneKept(Head(stats)) THEN <<Head(stats)>> ELSE << >>) \o FilterKept(Tail(stats))

\* Array.prototype.sort with (a, b) => b.diffRatio - a.diffRatio: stable,
\* highest ratio first.
RECURSIVE InsertByRatio(_, _)
InsertByRatio(sorted, e) ==
  IF sorted = << >> THEN <<e>>
  ELSE IF FracLeq(e.diffRatio, Head(sorted).diffRatio)
       THEN <<Head(sorted)>> \o InsertByRatio(Tail(sorted), e)
       ELSE <<e>> \o sorted

RECURSIVE SortByRatio(_)
SortByRatio(seq) ==
  IF seq = << >> THEN << >>
  ELSE InsertByRatio(SortByRatio(SubSeq(seq, 1, Len(seq) - 1)), seq[Len(seq)])

\* diff.ts 423-467
summarizeZones(diffPng, width, height, zones) ==
  IF Len(zones) = 0 THEN << >>
  ELSE LET stats == [i \in DOMAIN zones |-> ZoneStat(zones[i], width, height)]
           kept == FilterKept(stats)
           mapped == [i \in DOMAIN kept |->
                        [selector |-> kept[i].selector,
                         bounds |-> kept[i].bounds,
                         diffRatio |-> IF kept[i].total # 0
                                       THEN Frac(ZoneChanged(kept[i], diffPng, width), kept[i].total)
                                       ELSE Frac(0, 1)]]
           sorted == SortByRatio(mapped)
       IN  SubSeq(sorted, 1, Min(12, Len(sorted)))

\* ------------------------------------------------- captureDomZones (313-394)
\* Strings are sequences of characters; an absent attribute is the empty
\* string (`el.id || null` makes both null, and join() prints null as "").
Absent == << >>

\* String.prototype.toLowerCase on the letters of the tag names.
LowerOf(c) ==
  CASE c = "S" -> "s" [] c = "E" -> "e" [] c = "C" -> "c" [] c = "T" -> "t"
    [] c = "I" -> "i" [] c = "O" -> "o" [] c = "N" -> "n" [] c = "A" -> "a"
    [] c = "V" -> "v" [] OTHER -> c
toLowerCase(str) == [i \in DOMAIN str |-> LowerOf(str[i])]

\* Array.prototype.join
RECURSIVE Join(_, _)
Join(parts, sep) ==
  IF parts = << >> THEN << >>
  ELSE IF Len(parts) = 1 THEN parts[1]
  ELSE parts[1] \o sep \o Join(Tail(parts), sep)

\* Array.prototype.slice(0, n)
Slice(seq, n) == SubSeq(seq, 1, Min(n, Len(seq)))

\* diff.ts 336: Array.from(el.classList).slice(0, 6)
ZoneClasses(el) == Slice(el.classList, KeyClasses)

\* diff.ts 337: [el.tagName, id, dataTestId, classes.join('.')].join('|')
ZoneKey(el) ==
  Join(<<el.tagName, el.id, el.dataTestId, Join(ZoneClasses(el), <<".">>)>>, <<"|">>)

\* Mutant: a landmark is dropped only when both sides are too small.
TooSmallBothSides(rect) == rect.width < MinZoneSide /\ rect.height < MinZoneSide

\* diff.ts 332
TooSmall(rect) == rect.width < MinZoneSide \/ rect.height < MinZoneSide

\* The parts of an array that were pushed (the empty string stands for a
\* part whose `if` did not push).
RECURSIVE Pushed(_)
Pushed(parts) ==
  IF parts = << >> THEN << >>
  ELSE (IF Head(parts) = << >> THEN << >> ELSE <<Head(parts)>>) \o Pushed(Tail(parts))

\* diff.ts 340-343, 350
SelectorParts(el) ==
  Pushed(<<toLowerCase(el.tagName),
           IF el.id # Absent THEN <<"#">> \o el.id ELSE << >>,
           IF el.dataTestId # Absent
           THEN <<"[", "d", "a", "t", "a", "-", "t", "e", "s", "t", "i", "d", "=", "\"">>
                  \o el.dataTestId \o <<"\"", "]">>
           ELSE << >>>>)

\* diff.ts 344-349
LabelParts(el) ==
  Pushed(<<toLowerCase(el.tagName),
           IF el.id # Absent THEN <<"#">> \o el.id ELSE << >>,
           IF Len(ZoneClasses(el)) # 0 THEN <<".">> \o Join(ZoneClasses(el), <<".">>) ELSE << >>,
           IF el.dataTestId # Absent
           THEN <<"[", "d", "a", "t", "a", "-", "t", "e", "s", "t", "i", "d", "=">>
                  \o el.dataTestId \o <<"]">>
           ELSE << >>,
           IF el.role # Absent
           THEN <<"[", "r", "o", "l", "e", "=">> \o el.role \o <<"]">>
           ELSE << >>>>)

\* diff.ts 351-365: the zone of an element.
RawZone(el) ==
  [selector |-> IF Join(SelectorParts(el), << >>) # << >>
                THEN Join(SelectorParts(el), << >>)
                ELSE toLowerCase(el.tagName),
   label |-> Join(LabelParts(el), <<" ">>),
   tag |-> toLowerCase(el.tagName),
   id |-> el.id,
   classList |-> ZoneClasses(el),
   dataTestId |-> el.dataTestId,
   role |-> el.role,
   bounds |-> el.rect]

\* diff.ts 329-367: nodes.map(...).filter(zone => zone !== null), with the
\* set `seen` of the keys met so far.
RECURSIVE MapNodes(_, _)
MapNodes(nodes, seen) ==
  IF nodes = << >> THEN << >>
  ELSE LET el == Head(nodes)
       IN  IF TooSmall(el.rect) THEN MapNodes(Tail(nodes), seen)
           ELSE IF ZoneKey(el) \in seen THEN MapNodes(Tail(nodes), seen)
           ELSE <<RawZone(el)>> \o MapNodes(Tail(nodes), seen \union {ZoneKey(el)})

\* Array.prototype.map with (cls) => `.${cls}`
RECURSIVE DotEach(_)
DotEach(classes) ==
  IF classes = << >> THEN << >> ELSE <<(<<".">> \o Head(classes))>> \o DotEach(Tail(classes))

\* diff.ts 386-394
normalizeSelector(zone) ==
  IF zone.id # Absent THEN <<"#">> \o zone.id
  ELSE IF zone.dataTestId # Absent
  THEN zone.tag \o <<"[", "d", "a", "t", "a", "-", "t", "e", "s", "t", "i", "d", "=", "\"">>
         \o zone.dataTestId \o <<"\"", "]">>
  ELSE IF Len(zone.classList) # 0
  THEN zone.tag \o Join(DotEach(Slice(zone.classList, SelectorClasses)), << >>)
  ELSE zone.selector

\* diff.ts 313-384: the landmarks of a page, given its nodes in document
\* order (the result of querySelectorAll).
captureDomZones(nodes) ==
  LET rawZones == Slice(MapNodes(nodes, {}), MaxCaptured)
  IN  [i \in DOMAIN rawZones |->
         [rawZones[i] EXCEPT !.selector = normalizeSelector(rawZones[i])]]

\* ---------------------------------------------------------------- routes
\* A route is a sequence of characters.
SafeChars == {"a", "b", "r", "o", "t", "_", "-", "0"}

RECURSIVE MapChars(_, _, _)
MapChars(s, from, to) ==
  IF s = << >> THEN << >>
  ELSE <<IF Head(s) \in from THEN to ELSE Head(s)>> \o MapChars(Tail(s), from, to)

Chars(s) == { s[i] : i \in DOMAIN s }

\* Mutant: the leading slash is not stripped.
routeToFolderKeepsSlash(route) ==
  IF route = <<"/">> \/ route = << >> THEN <<"r", "o", "o", "t">>
  ELSE MapChars(route, Chars(route) \ SafeChars, "_")

\* diff.ts 35-38
routeToFolder(route) ==
  IF route = <<"/">> \/ route = << >> THEN <<"r", "o", "o", "t">>
  ELSE LET stripped == IF Head(route) = "/" THEN Tail(route) ELSE route
           under == MapChars(stripped, {"/"}, "_")
       IN  MapChars(under, Chars(under) \ SafeChars, "_")

\* The entries analysis.json may list: two well-formed ones and one without
\* a sourceUrl (JSON.parse does not validate what it reads).
RouteEntries ==
  { [route |-> <<"/">>, sourceUrl |-> "u1"],
    [route |-> <<"/", "a">>, sourceUrl |-> "u2"],
    [route |-> <<"/", "b">>, sourceUrl |-> Undefined] }

\* Two different routes of one site (the page '/' and a page '/root').
RootAndSlashRoot ==
  << [route |-> <<"/">>, sourceUrl |-> "u1"],
     [route |-> <<"/", "r", "o", "o", "t">>, sourceUrl |-> "u2"] >>

RouteLists == UNION { [1..n -> RouteEntries] : n \in 0..MaxRoutes } \cup {RootAndSlashRoot}

\* What JSON.parse(raw) may yield: an object with a routes array, or one
\* whose routes is not iterable (e.g. {}).
Analyses ==
  { [iterable |-> TRUE, routes |-> l] : l \in RouteLists }
  \cup { [iterable |-> FALSE, routes |-> << >>] }


\* ------------------------------------------------------------------ state
VARIABLES
  pc,           \* where diff() stands: the await it is suspended at
  input,        \* the caller's arguments and the files present at entry
  nodeModules,  \* staging/node_modules existed when ensureDeps looked
  installRes,   \* ensureDeps: const res, the settled install (NoRun before)
  buildRes,     \* const buildRes, the settled build (NoRun outside its block)
  buildEnd,     \* the event the build child ended with (NoEnd outside the block)
  analysis,     \* JSON.parse(raw)
  port,         \* let port
  getPortRejected, \* getPort() rejected in this run
  serverProc,   \* let serverProc: NoProc or the handle of the spawned server
  elapsed,      \* waitForHttp: Date.now() - start
  readyOk,      \* waitForHttp saw a response with res.ok
  idx,          \* position of the for..of loop in analysis.routes (1-based)
  actualPath,   \* let actualPath: "baseline" or "rendered"
  rendered,     \* the screenshot renderActual wrote for the current route
  perRoute,     \* const perRoute
  result,       \* what diff() returned
  err,          \* what diff() threw
  progress,     \* the progress events emitted so far (emitProgress)
  procs,        \* the child processes spawned so far, in order
  kills,        \* how often kill() of the server handle was invoked
  files,        \* the files written under outRoot: <<folder, name>>
  obs,          \* per processed route: what the environment did to it
  fn,           \* the helper function applied on its own ("none" inside diff())
  args,         \* its arguments
  ret           \* << >> until it returned, then <<its return value>>

vars == <<pc, input, nodeModules, installRes, buildRes, buildEnd, analysis, port, getPortRejected, serverProc,
          elapsed, readyOk, idx, actualPath, rendered, perRoute, result, err,
          progress, procs, kills, files, obs, fn, args, ret>>

Inputs ==
  [analysisExists : BOOLEAN, fallbacksExists : BOOLEAN, manifestExists : BOOLEAN,
   threshold : Thresholds, renderReport : BOOLEAN]

NoResult == [perRoute |-> << >>, summary |-> [passed |-> 0, failed |-> 0, avg |-> Frac(0, 1)],
             reportPath |-> Undefined]

\* No helper function is applied on its own.
NoCall ==
  /\ fn = "none"
  /\ args = << >>
  /\ ret = << >>

\* The state diff() is entered in, for given arguments and staging files.
Entry(in, nm) ==
  /\ pc = "start"
  /\ input = in
  /\ nodeModules = nm
  /\ installRes = NoRun
  /\ buildRes = NoRun
  /\ buildEnd = NoEnd
  /\ analysis = [iterable |-> FALSE, routes |-> << >>]
  /\ port = 0
  /\ getPortRejected = FALSE
  /\ serverProc = NoProc
  /\ elapsed = 0
  /\ readyOk = FALSE
  /\ idx = 0
  /\ actualPath = "baseline"
  /\ rendered = NoImage
  /\ perRoute = << >>
  /\ result = NoResult
  /\ err = NoError
  /\ progress = << >>
  /\ procs = << >>
  /\ kills = 0
  /\ files = {}
  /\ obs = << >>

Init ==
  /\ \E in \in Inputs, nm \in BOOLEAN : Entry(in, nm)
  /\ NoCall

\* utils.ts emitProgress: one event on the progress stream.
Event(phase, route) == [phase |-> phase, route |-> route]
Emit(stream, phase) == Append(stream, Event(phase, 0))

\* diff() throws e without having entered the try of lines 110-156.
Throw(e) ==
  /\ pc' = "thrown"
  /\ err' = e

\* ------------------------------------------------- preconditions (58-73)
\* Mutant: the generation artifacts are not checked.
PreconditionErrorAnalysisOnly(in) ==
  IF ~in.analysisExists THEN rpcError(ErrAnalysisMissing, "analysis.json missing", NoData)
  ELSE NoError

\* diff.ts 63-70: the checks made before anything else.
PreconditionError(in) ==
  IF ~in.analysisExists THEN rpcError(ErrAnalysisMissing, "analysis.json missing", NoData)
  ELSE IF ~in.fallbacksExists THEN rpcError(ErrGenerationMissing, "generation artifacts missing", NoData)
  ELSE NoError

\* diff.ts 58-73: both existence checks, then the first two progress events.
CheckPreconditions ==
  /\ pc = "start"
  /\ IF PreconditionError(input) # NoError
     THEN /\ Throw(PreconditionError(input))
          /\ UNCHANGED progress
     ELSE /\ pc' = "ensureDeps"
          /\ progress' = Emit(Emit(progress, "start"), "deps")
          /\ UNCHANGED err
  /\ UNCHANGED <<fn, args, ret, buildEnd, input, nodeModules, installRes, buildRes, analysis, port, getPortRejected, serverProc,
                 elapsed, readyOk, idx, actualPath, rendered, perRoute, result,
                 procs, kills, files, obs>>

\* ------------------------------------------------- ensureDeps (utils.ts)
\* utils.ts 126-127: the install is skipped when node_modules exists.
NeedsInstall(nm) == ~nm

\* Mutant: the exit code of the install is not looked at.
InstallErrorTimeoutOnly(res) ==
  IF res.timedOut THEN rpcError(ErrInstall, "dependency install timed out",
                                TimeoutData("npm install", InstallTimeoutMs))
  ELSE NoError

\* utils.ts 133-146: what ensureDeps throws for the result of the install.
InstallError(res) ==
  IF res.timedOut THEN rpcError(ErrInstall, "dependency install timed out",
                                TimeoutData("npm install", InstallTimeoutMs))
  ELSE IF res.code # 0 THEN rpcError(ErrInstall, "dependency install failed",
                                     ExitData("npm install", res))
  ELSE NoError

\* utils.ts 125-132: ensureDeps up to the await of run('npm', [ci|install]).
EnsureDeps ==
  /\ pc = "ensureDeps"
  /\ IF NeedsInstall(nodeModules)
     THEN /\ procs' = Append(procs, "install")
          /\ pc' = "install"
     ELSE /\ pc' = "readAnalysis"
          /\ UNCHANGED procs
  /\ UNCHANGED <<fn, args, ret, buildEnd, input, nodeModules, installRes, buildRes, analysis, port, getPortRejected, serverProc,
                 elapsed, readyOk, idx, actualPath, rendered, perRoute, result, err,
                 progress, kills, files, obs>>

\* utils.ts 132-146: the install process (npm ci or npm install) ended.
\* The output of an install that passed is never read and is not kept.
InstallDone ==
  /\ pc = "install"
  /\ \E end \in ChildEnds :
       LET res == run(end) IN
       IF res.rejected
       THEN /\ Throw(NativeError("spawn error"))
            /\ installRes' = res
       ELSE IF InstallError(res) # NoError
       THEN /\ Throw(InstallError(res))
            /\ installRes' = res
       ELSE /\ pc' = "readAnalysis"
            /\ installRes' = [res EXCEPT !.stdout = "", !.stderr = ""]
            /\ UNCHANGED err
  /\ UNCHANGED <<fn, args, ret, buildEnd, input, nodeModules, buildRes, analysis, port, getPortRejected, serverProc,
                 elapsed, readyOk, idx, actualPath, rendered, perRoute, result,
                 progress, procs, kills, files, obs>>

\* diff.ts 76-82: read and parse analysis.json.  The file can have become
\* unreadable since the existence check, and its text need not be JSON.
ReadAnalysis ==
  /\ pc = "readAnalysis"
  /\ \/ /\ Throw(rpcError(ErrInternal, "failed to read analysis", NoData))
        /\ UNCHANGED analysis
     \/ /\ Throw(NativeError("SyntaxError"))
        /\ UNCHANGED analysis
     \/ /\ analysis' \in Analyses
        /\ pc' = "getPort"
        /\ UNCHANGED err
  /\ UNCHANGED <<fn, args, ret, buildEnd, input, nodeModules, installRes, buildRes, port, getPortRejected, serverProc,
                 elapsed, readyOk, idx, actualPath, rendered, perRoute, result,
                 progress, procs, kills, files, obs>>


\* ------------------------------------------------ port and build (100-131)
\* The ports getPort({port: 3100}) may resolve with.
FreePorts == {DefaultPort, DefaultPort + 1}

\* Mutant: the port has no default when getPort rejects.
PortUnsetOnReject(rejected, free) == IF rejected THEN 0 ELSE free

\* diff.ts 102-107: the port after the try around getPort.
PortAfterGetPort(rejected, free) == IF rejected THEN DefaultPort ELSE free

\* diff.ts 100-112: port discovery, two progress events, the build is spawned.
GetPort ==
  /\ pc = "getPort"
  /\ \E rejected \in BOOLEAN, free \in FreePorts :
       /\ getPortRejected' = rejected
       /\ port' = PortAfterGetPort(rejected, free)
  /\ progress' = Emit(Emit(progress, "build"), "build")
  /\ procs' = Append(procs, "build")
  /\ pc' = "build"
  /\ UNCHANGED <<fn, args, ret, buildEnd, input, nodeModules, installRes, buildRes, analysis, serverProc, elapsed, readyOk, idx,
                 actualPath, rendered, perRoute, result, err, kills, files, obs>>

\* Mutant: timedOut is not looked at (a timed-out build resolves with code 0).
BuildErrorExitOnly(res) ==
  IF res.code # 0 THEN rpcError(ErrBuild, "failed running npm run build",
                                ExitData("npm run build", res))
  ELSE NoError

\* diff.ts 113-126: what the try block throws for the result of the build.
BuildError(res) ==
  IF res.timedOut THEN rpcError(ErrBuild, "timed out running npm run build",
                                TimeoutData("npm run build", BuildTimeoutMs))
  ELSE IF res.code # 0 THEN rpcError(ErrBuild, "failed running npm run build",
                                     ExitData("npm run build", res))
  ELSE NoError

\* diff.ts 627-630: the handle of the server started on a port.
spawnServer(p) == [spawned |-> TRUE, port |-> p]

\* Mutant: the catch block rethrows without killing the server.
CatchKillsNone(proc) == 0

\* diff.ts 147: the catch block kills the server if there is one.
CatchKills(proc) == IF proc # NoProc THEN 1 ELSE 0

\* diff.ts 146-156: the catch of the build/serve try block.
Catch(e) ==
  /\ kills' = kills + CatchKills(serverProc)
  /\ serverProc' = NoProc
  /\ progress' = Emit(progress, "error")
  /\ err' = e
  /\ pc' = "thrown"

\* Without a package.json npm run build fails at once: it is neither
\* spawned in vain nor killed, it exits with a non-zero code.
BuildCanEnd(end) ==
  input.manifestExists \/ (end.event = "close" /\ ~end.signal /\ end.code # 0)

\* diff.ts 112-139: the build ended; on success the server is spawned
\* (627-630) and waitForHttp starts.
BuildDone ==
  /\ pc = "build"
  /\ \E end \in ChildEnds :
       /\ BuildCanEnd(end)
       /\ buildEnd' = end
       /\ buildRes' = run(end)
       /\ LET res == run(end) IN
          IF res.rejected
          THEN /\ Catch(NativeError("spawn error"))
               /\ UNCHANGED <<procs, elapsed>>
          ELSE IF BuildError(res) # NoError
          THEN /\ Catch(BuildError(res))
               /\ UNCHANGED <<procs, elapsed>>
          ELSE /\ procs' = Append(procs, "server")
               /\ serverProc' = spawnServer(port)
               /\ progress' = Emit(Emit(progress, "build-complete"), "serve")
               /\ elapsed' = 0
               /\ pc' = "waitForHttp"
               /\ UNCHANGED <<err, kills>>
  /\ UNCHANGED <<fn, args, ret, input, nodeModules, installRes, analysis, port, getPortRejected, readyOk, idx,
                 actualPath, rendered, perRoute, result, files, obs>>

\* -------------------------------------------------- waitForHttp (632-646)
\* How long one fetch of the root URL may take before it settles.
FetchDurations == {0, RetryIntervalMs, ReadyTimeoutMs}

\* diff.ts 634, 641-645: the loop condition; past the timeout waitForHttp
\* throws and the catch of diff() runs.
WaitCheck ==
  /\ pc = "waitForHttp"
  /\ IF elapsed < ReadyTimeoutMs
     THEN /\ pc' = "fetch"
          /\ UNCHANGED <<err, kills, serverProc, progress, elapsed>>
     ELSE /\ Catch(rpcError(ErrBuild, "timed out waiting for staging server",
                            TimeoutData("", ReadyTimeoutMs)))
          /\ elapsed' = 0
  /\ UNCHANGED <<fn, args, ret, buildEnd, input, nodeModules, installRes, buildRes, analysis, port, getPortRejected, readyOk, idx,
                 actualPath, rendered, perRoute, result, procs, files, obs>>

\* diff.ts 635-638, 140-145: one fetch settled; res.ok returns from
\* waitForHttp, anything else (a non-ok response, a fetch error) goes on to
\* the sleep.
FetchDone ==
  /\ pc = "fetch"
  /\ \E d \in FetchDurations, ok \in BOOLEAN :
       IF ok
       THEN /\ readyOk' = TRUE
            /\ progress' = Emit(progress, "serve-ready")
            /\ elapsed' = 0
            /\ buildRes' = NoRun
            /\ buildEnd' = NoEnd
            /\ idx' = 1
            /\ pc' = "loop"
       ELSE /\ elapsed' = elapsed + d
            /\ pc' = "sleep"
            /\ UNCHANGED <<readyOk, progress, idx, buildRes, buildEnd>>
  /\ UNCHANGED <<fn, args, ret, input, nodeModules, installRes, analysis, port, getPortRejected, serverProc,
                 actualPath, rendered, perRoute, result, err, procs, kills, files, obs>>

\* diff.ts 639: the retry interval.
Sleep ==
  /\ pc = "sleep"
  /\ elapsed' = elapsed + RetryIntervalMs
  /\ pc' = "waitForHttp"
  /\ UNCHANGED <<fn, args, ret, buildEnd, input, nodeModules, installRes, buildRes, analysis, port, getPortRejected, serverProc,
                 readyOk, idx, actualPath, rendered, perRoute, result, err,
                 progress, procs, kills, files, obs>>


\* ------------------------------------------------ the route loop (158-258)
ArtifactNames == <<"baseline.png", "actual.png", "diff.png", "metrics.json", "summary.json">>

\* The first n artifact files of a route folder.
Artifacts(folder, n) == { <<folder, ArtifactNames[i]>> : i \in 1..n }

\* What the environment did to a route: how renderActual settled (and the
\* screenshot it took), whether the baseline could be read, and whether the
\* artifact files could be written.
Observation(render, shot) ==
  [render |-> render, shot |-> shot, baseline |-> "unread", writable |-> FALSE]

\* diff.ts 260-270: the summary of the routes in perRoute.
RECURSIVE SumRatios(_)
SumRatios(rs) ==
  IF rs = << >> THEN Frac(0, 1)
  ELSE LET rest == SumRatios(Tail(rs))
           r == Head(rs).diffRatio
       IN  Frac(r.num * rest.den + rest.num * r.den, r.den * rest.den)

\* Mutant: a route passes only below the threshold, not at it.
SummarizeStrict(rs, threshold) ==
  LET passed == Cardinality({ i \in DOMAIN rs : ~FracLeq(threshold, rs[i].diffRatio) })
      sum == SumRatios(rs)
  IN  [passed |-> passed,
       failed |-> Len(rs) - passed,
       avg    |-> IF Len(rs) # 0 THEN Frac(sum.num, sum.den * Len(rs)) ELSE Frac(0, 1)]

Summarize(rs, threshold) ==
  LET passed == Cardinality({ i \in DOMAIN rs : FracLeq(rs[i].diffRatio, threshold) })
      sum == SumRatios(rs)
  IN  [passed |-> passed,
       failed |-> Len(rs) - passed,
       avg    |-> IF Len(rs) # 0 THEN Frac(sum.num, sum.den * Len(rs)) ELSE Frac(0, 1)]

\* Mutant: the server is left running after the loop.
AfterKillStillRunning(proc) == proc

\* diff.ts 262-263: serverProc.kill(); serverProc = null
AfterKill(proc) == NoProc

\* diff.ts 158-176: the head of the loop and the start of one iteration.
\* Iterating analysis.routes throws when it is not iterable, sha1() throws
\* when sourceUrl is not a string; neither is inside a try block.
\* diff.ts 260-273: after the last route the server is killed and the
\* summary computed.
LoopHead ==
  /\ pc = "loop"
  /\ IF ~analysis.iterable
     THEN /\ Throw(NativeError("TypeError"))
          /\ UNCHANGED <<actualPath, progress, serverProc, kills, result>>
     ELSE IF idx <= Len(analysis.routes)
     THEN IF analysis.routes[idx].sourceUrl = Undefined
          THEN /\ Throw(NativeError("TypeError"))
               /\ UNCHANGED <<actualPath, progress, serverProc, kills, result>>
          ELSE /\ actualPath' = "baseline"
               /\ IF serverProc # NoProc
                  THEN /\ progress' = Append(progress, Event("route", idx))
                       /\ pc' = "render"
                  ELSE /\ pc' = "compare"
                       /\ UNCHANGED progress
               /\ UNCHANGED <<err, serverProc, kills, result>>
     ELSE /\ IF serverProc # NoProc
             THEN /\ progress' = Emit(progress, "serve-stop")
                  /\ kills' = kills + 1
                  /\ serverProc' = AfterKill(serverProc)
             ELSE UNCHANGED <<progress, kills, serverProc>>
          /\ result' = [perRoute |-> perRoute,
                        summary |-> Summarize(perRoute, input.threshold),
                        reportPath |-> Undefined]
          /\ pc' = IF input.renderReport THEN "report" ELSE "returned"
          /\ UNCHANGED <<actualPath, err>>
  /\ UNCHANGED <<fn, args, ret, buildEnd, input, nodeModules, installRes, buildRes, analysis, port, getPortRejected, elapsed,
                 readyOk, idx, rendered, perRoute, procs, files, obs>>

\* Mutant: the catch of the render does not fall back to the baseline.
ActualPathNoFallback(threw) == "rendered"

\* diff.ts 177-182: the actual image after renderActual settled.
ActualPathAfterRender(threw) == IF threw THEN "baseline" ELSE "rendered"

\* diff.ts 300-309: the awaited steps of renderActual, in order.
RenderSteps ==
  <<"ensureDir", "launch", "newContext", "newPage", "goto", "captureDomZones",
    "screenshot", "context.close", "browser.close">>

\* The outcomes of one call: every step resolves (0), or step number
\* failedStep rejects.  browser.close is taken to close the browser.
RenderOutcomes == 0..(Len(RenderSteps) - 1)

\* diff.ts 298-311: what one call of renderActual leaves behind.  No step
\* is inside a try block: a step that rejects ends the call at once.
renderActual(failedStep) ==
  LET reached(step) == failedStep = 0 \/ failedStep > step
  IN  [threw |-> failedStep # 0,
       launched |-> reached(2),
       screenshot |-> reached(7),
       closed |-> reached(9)]

\* diff.ts 176-182, 298-311: renderActual settled.  It resolves after the
\* screenshot was written to <folder>/actual.png; it can throw before or
\* after that write.
RenderDone ==
  /\ pc = "render"
  /\ LET folder == routeToFolder(analysis.routes[idx].route) IN
     \E failedStep \in RenderOutcomes, shot \in Images :
       LET threw == renderActual(failedStep).threw
           wrote == renderActual(failedStep).screenshot
       IN
       /\ actualPath' = ActualPathAfterRender(threw)
       /\ rendered' = IF threw THEN NoImage ELSE shot
       /\ files' = IF wrote THEN files \cup {<<folder, "actual.png">>} ELSE files
       /\ obs' = Append(obs, Observation(IF threw THEN "fail" ELSE "ok",
                                         IF threw THEN NoImage ELSE shot))
  /\ pc' = "compare"
  /\ UNCHANGED <<fn, args, ret, buildEnd, input, nodeModules, installRes, buildRes, analysis, port, getPortRejected, serverProc,
                 elapsed, readyOk, idx, perRoute, result, err, progress, procs, kills>>

\* Mutant: an unreadable image is taken for an empty one instead of skipping.
SkipsNever(baselinePng, actualPng) == FALSE

\* diff.ts 185-187, 255-257: a route whose baseline (or actual) image
\* cannot be read is skipped.
Skips(baselinePng, actualPng) == baselinePng = NoImage \/ actualPng = NoImage

\* Mutant: a result is put in front of the earlier ones.
Unshift(list, entry) == <<entry>> \o list

\* diff.ts 247-254: perRoute.push
Push(list, entry) == Append(list, entry)

\* diff.ts 185-257: the try block of one route.  readPng(baselinePath)
\* fails when the crawl cache has no readable snap.png; the actual image is
\* read from actualPath; the artifact writes can fail (modelled: all of
\* them succeed or the first one throws), which the same catch swallows.
Compare ==
  /\ pc = "compare"
  /\ LET r == analysis.routes[idx]
         folder == routeToFolder(r.route)
     IN
     \E readable \in BOOLEAN, writeOk \in BOOLEAN :
       LET written == IF writeOk THEN Len(ArtifactNames) ELSE 0
           baselinePng == IF readable THEN Snapshot(r.sourceUrl) ELSE NoImage
           seen == IF readable THEN "read" ELSE "missing"
           actualPng == IF actualPath = "baseline" THEN baselinePng ELSE rendered
           ratio == CompareRatio(baselinePng, actualPng)
       IN
       /\ ~readable => writeOk
       /\ obs' = [obs EXCEPT ![idx].baseline = seen, ![idx].writable = writeOk]
       /\ IF Skips(baselinePng, actualPng)
          THEN UNCHANGED <<files, perRoute>>
          ELSE /\ files' = files \cup Artifacts(folder, written)
               /\ perRoute' = IF written = Len(ArtifactNames)
                               THEN Push(perRoute, [route |-> r.route, diffRatio |-> ratio])
                               ELSE perRoute
  /\ idx' = idx + 1
  /\ rendered' = NoImage
  /\ pc' = "loop"
  /\ UNCHANGED <<fn, args, ret, buildEnd, input, nodeModules, installRes, buildRes, analysis, port, getPortRejected, serverProc,
                 elapsed, readyOk, actualPath, result, err, progress, procs, kills>>

\* Mutant: a failure of the report is not reported.
ReportProgressSilent(stream, threw) == stream

\* diff.ts 285-292: the catch around generateHtmlReport emits a warning.
ReportProgress(stream, threw) == IF threw THEN Emit(stream, "warn") ELSE stream

\* diff.ts 272-295: the aggregate report; generateHtmlReport (473-610)
\* writes index.html as its last step, or throws before; a failure is a
\* warning only.
Report ==
  /\ pc = "report"
  /\ \E threw \in BOOLEAN :
       /\ progress' = ReportProgress(progress, threw)
       /\ IF threw
          THEN UNCHANGED <<files, result>>
          ELSE /\ files' = files \cup {<<<< >>, "index.html">>}
               /\ result' = [result EXCEPT !.reportPath = "index.html"]
  /\ pc' = "returned"
  /\ UNCHANGED <<fn, args, ret, buildEnd, input, nodeModules, installRes, buildRes, analysis, port, getPortRejected, serverProc,
                 elapsed, readyOk, idx, actualPath, rendered, perRoute, err,
                 procs, kills, obs>>

Next ==
  \/ CheckPreconditions
  \/ EnsureDeps
  \/ InstallDone
  \/ ReadAnalysis
  \/ GetPort
  \/ BuildDone
  \/ WaitCheck
  \/ FetchDone
  \/ Sleep
  \/ LoopHead
  \/ RenderDone
  \/ Compare
  \/ Report

Spec == Init /\ [][Next]_vars

\* ------------------------------------ the helper functions on their own
\* A second specification: one of the pure functions of diff.ts is applied
\* to arguments drawn from bounded sets; diff() itself does not run.
diffVars == <<pc, input, nodeModules, installRes, buildRes, buildEnd, analysis, port, getPortRejected,
              serverProc, elapsed, readyOk, idx, actualPath, rendered, perRoute, result,
              err, progress, procs, kills, files, obs>>

\* diff.ts 186-231: what the try block of a route computes from the two
\* images it read, up to the heatmap.
RouteDiff(baselinePng, actualPng) ==
  LET width == Min(baselinePng.width, actualPng.width)
      height == Min(baselinePng.height, actualPng.height)
      baselineCrop == Crop(baselinePng, width, height)
      actualCrop == Crop(actualPng, width, height)
      diffPng == DiffPng(baselineCrop.data, actualCrop.data, width, height)
  IN  [width |-> width, height |-> height,
       baselineCrop |-> baselineCrop, actualCrop |-> actualCrop,
       changed |-> pixelmatch(baselineCrop.data, actualCrop.data, width, height),
       total |-> width * height,
       diffRatio |-> CompareRatio(baselinePng, actualPng),
       diffPng |-> diffPng,
       heatmap |-> buildHeatmap(diffPng, width, height, 4, 4)]

\* The images readPng may return: every image of at most MaxPixels pixels,
\* each pixel black (0) or white (1), the images without pixels included.
ImageSizes ==
  { wh \in (0..MaxPixels) \X (0..MaxPixels) :
      wh[1] * wh[2] <= MaxPixels /\ wh[1] + wh[2] <= MaxPixels + 1 }
TestImages ==
  UNION { { Png(wh[1], wh[2], d) : d \in [1..(wh[1] * wh[2]) -> {0, 1}] } : wh \in ImageSizes }

\* Byte values on both sides of every threshold of isDiffPixel.
Bytes == {0, 80, 81, 199, 200, 219, 220, 255}
PixelArgs ==
  { [data |-> pad \o <<r, g, b, a>>, idx |-> Len(pad)] :
      pad \in { << >>, <<0, 0, 0, 0>> }, r \in Bytes, g \in Bytes, b \in Bytes, a \in Bytes }

\* Routes: the characters a route may hold, safe ones and others.
RouteChars == {"/", "a", "b", "0", "_", "-", ".", "?"}
Routes == UNION { [1..n -> RouteChars] : n \in 0..MaxRouteLen }

\* Diff images as pixelmatch leaves them: no pixel, every pixel, or one
\* single pixel drawn red, the others white.
DiffImage(width, height, red) ==
  Png(width, height,
      [k \in 1..(4 * width * height) |->
         IF ((k - 1) \div 4) \in red
         THEN <<255, 0, 0, 255>>[((k - 1) % 4) + 1]
         ELSE 255])
DiffImages(width, height) ==
  { DiffImage(width, height, red) :
      red \in { {}, 0..(width * height - 1) } \cup { {p} : p \in 0..(width * height - 1) } }
HeatmapArgs ==
  UNION { { [diffPng |-> d, width |-> w, height |-> h] : d \in DiffImages(w, h) } :
            w \in 0..MaxHeatSide, h \in 0..MaxHeatSide }

\* Zones of a 2 x 2 image: boxes left of / above it, inside it and right of /
\* below it, half a pixel or one and a half pixels wide and high.
ZoneBoxes ==
  { [x |-> x, y |-> y, width |-> side, height |-> side] :
      x \in {-3, 0, 6}, y \in {-3, 0, 6}, side \in {1, 3} }
ZoneLists ==
  UNION { { [i \in 1..n |-> [selector |-> <<"#", Digits[i + 1]>>, bounds |-> boxes[i]]] :
              boxes \in [1..n -> ZoneBoxes] } : n \in 0..MaxZones }
ZonesArgs ==
  { [diffPng |-> d, width |-> 2, height |-> 2, zones |-> z] :
      d \in DiffImages(2, 2), z \in ZoneLists }

\* Landmark elements: with and without id, test-id, role and classes, large
\* and too small, with class lists that agree in their first 6 names, and
\* with a class name that holds a dot.
Node(tagName, id, dataTestId, role, classList, width, height) ==
  [tagName |-> tagName, id |-> id, dataTestId |-> dataTestId, role |-> role,
   classList |-> classList, rect |-> [x |-> 0, y |-> 0, width |-> width, height |-> height]]
Section == <<"S", "E", "C", "T", "I", "O", "N">>
Nav == <<"N", "A", "V">>
Cls(c) == <<c>>
Nodes ==
  { Node(Section, Absent, Absent, Absent, <<Cls("a"), Cls("b")>>, 40, 32),
    Node(Section, Absent, Absent, Absent, <<Cls("a"), Cls("b")>>, 31, 40),
    Node(Section, Absent, Absent, Absent, <<Cls("a"), Cls("b")>>, 40, 31),
    Node(Section, Absent, Absent, Absent, <<(<<"a", ".", "b">>)>>, 32, 32),
    Node(Section, Absent, Absent, Absent,
         <<Cls("a"), Cls("b"), Cls("c"), Cls("d"), Cls("e"), Cls("f"), Cls("g")>>, 40, 40),
    Node(Section, Absent, Absent, Absent,
         <<Cls("a"), Cls("b"), Cls("c"), Cls("d"), Cls("e"), Cls("f"), Cls("h")>>, 40, 40),
    Node(Nav, <<"x">>, <<"t">>, <<"n", "a", "v">>, <<Cls("a"), Cls("b"), Cls("c"), Cls("d")>>, 40, 40),
    Node(Nav, Absent, <<"t">>, Absent, <<Cls("a")>>, 40, 40),
    Node(Nav, Absent, Absent, Absent, << >>, 40, 40) }

\* A run of n plain landmarks, each with an id of its own.
Plain(n) == [i \in 1..n |-> Node(Section, <<"i">> \o ToDecimal(i), Absent, Absent, << >>, 40, 40)]

\* Document order: the element at position i lies at y = i.
InDocument(nodes) == [i \in DOMAIN nodes |-> [nodes[i] EXCEPT !.rect.y = i]]

Pages ==
  { InDocument(Plain(n) \o rest) :
      n \in {0, MaxCaptured - 1, MaxCaptured},
      rest \in UNION { [1..k -> Nodes] : k \in 0..MaxNodes } }

InitFn ==
  /\ Entry([analysisExists |-> TRUE, fallbacksExists |-> TRUE, manifestExists |-> TRUE,
            threshold |-> Frac(1, 100), renderReport |-> FALSE], TRUE)
  /\ ret = << >>
  /\ \/ fn = "RouteDiff" /\ args \in [baselinePng : TestImages, actualPng : TestImages]
     \/ fn = "isDiffPixel" /\ args \in PixelArgs
     \/ fn = "routeToFolder" /\ args \in [route : Routes]
     \/ fn = "buildHeatmap" /\ args \in HeatmapArgs
     \/ fn = "summarizeZones" /\ args \in ZonesArgs
     \/ fn = "captureDomZones" /\ args \in [nodes : Pages]
     \/ fn = "renderActual" /\ args \in [failedStep : RenderOutcomes]

\* The function called returns.
Return(value) ==
  /\ ret = << >>
  /\ ret' = <<value>>
  /\ UNCHANGED <<fn, args, diffVars>>

CallRouteDiff ==
  /\ fn = "RouteDiff"
  /\ Return(RouteDiff(args.baselinePng, args.actualPng))

CallIsDiffPixel ==
  /\ fn = "isDiffPixel"
  /\ Return(isDiffPixel(args.data, args.idx))

CallRouteToFolder ==
  /\ fn = "routeToFolder"
  /\ Return(routeToFolder(args.route))

CallBuildHeatmap ==
  /\ fn = "buildHeatmap"
  /\ Return(buildHeatmap(args.diffPng, args.width, args.height, 4, 4))

CallSummarizeZones ==
  /\ fn = "summarizeZones"
  /\ Return(summarizeZones(args.diffPng, args.width, args.height, args.zones))

CallCaptureDomZones ==
  /\ fn = "captureDomZones"
  /\ Return(captureDomZones(args.nodes))

CallRenderActual ==
  /\ fn = "renderActual"
  /\ Return(renderActual(args.failedStep))

NextFn ==
  \/ CallRouteDiff
  \/ CallIsDiffPixel
  \/ CallRouteToFolder
  \/ CallBuildHeatmap
  \/ CallSummarizeZones
  \/ CallCaptureDomZones
  \/ CallRenderActual

SpecFn == InitFn /\ [][NextFn]_vars


\* ============================================================ properties
Terminal == pc \in {"returned", "thrown"}
Spawned(cmd) == \E i \in DOMAIN procs : procs[i] = cmd
ServerSpawned == Spawned("server")
RouteEvents == { i \in DOMAIN progress : progress[i].phase = "route" }
NoRouteWork == obs = << >> /\ files = {} /\ perRoute = << >> /\ RouteEvents = {}
ReadinessTimedOut == pc = "thrown" /\ err.name = "timed out waiting for staging server"

\* Route j went through its comparison step.
Done(j) == j \in DOMAIN obs /\ obs[j].baseline # "unread"
NDone == Cardinality({ j \in DOMAIN obs : Done(j) })

\* Route j has everything a result needs: a readable baseline and writable
\* artifacts.
Included(j) == obs[j].baseline = "read" /\ obs[j].writable

\* The result of route j, from its own entry and what happened to it alone.
Expected(j) ==
  LET r == analysis.routes[j]
      baselinePng == Snapshot(r.sourceUrl)
  IN  [route |-> r.route,
       diffRatio |-> CompareRatio(baselinePng,
                                  IF obs[j].render = "fail" THEN baselinePng ELSE obs[j].shot)]

RECURSIVE ExpectedUpTo(_)
ExpectedUpTo(n) ==
  IF n = 0 THEN << >>
  ELSE IF Included(n) THEN Append(ExpectedUpTo(n - 1), Expected(n))
  ELSE ExpectedUpTo(n - 1)

\* Once a route was rendered, the only way the run throws is the next entry
\* of the route list having no sourceUrl.
LoopAbortsOnlyOnBadEntry ==
  (pc = "thrown" /\ obs # << >>) =>
     /\ \A j \in DOMAIN obs : Done(j)
     /\ idx = Len(obs) + 1
     /\ idx \in DOMAIN analysis.routes
     /\ analysis.routes[idx].sourceUrl = Undefined

\* C1: in every run in which spawnServer was called, kill() of the server
\* handle has been invoked exactly once by the time diff() returns or throws.
\* (Stated as claimed; the code violates it.)
C1_KilledExactlyOnce ==
  (Terminal /\ ServerSpawned) => kills = 1

C4_ThreeDistinctPreconditions ==
  LET NoWork == procs = << >> /\ files = {}
  IN
  pc # "start" =>
    /\ ~input.analysisExists =>
          (pc = "thrown" /\ err.code = ErrAnalysisMissing /\ NoWork)
    /\ (input.analysisExists /\ ~input.fallbacksExists) =>
          (pc = "thrown" /\ err.code = ErrGenerationMissing /\ NoWork)
    /\ (input.analysisExists /\ input.fallbacksExists /\ ~input.manifestExists) =>
          (pc = "thrown" /\ err.code \notin {0, ErrAnalysisMissing, ErrGenerationMissing} /\ NoWork)

\* C5: when analysis.json or the generation artifacts are missing, diff() has
\* thrown the matching precondition error with no child process spawned, no
\* progress event emitted and no file written.
C5_MissingArtifactFailsFast ==
  (pc # "start" /\ (~input.analysisExists \/ ~input.fallbacksExists)) =>
     /\ pc = "thrown"
     /\ err.code = (IF ~input.analysisExists THEN ErrAnalysisMissing ELSE ErrGenerationMissing)
     /\ procs = << >>
     /\ progress = << >>
     /\ files = {}

C5_Witness == pc = "thrown" /\ input.analysisExists /\ ~input.fallbacksExists

\* C6: without node_modules the install is the first process spawned, before
\* the build; an install that timed out or exited non-zero makes diff() throw
\* the dependency-install error with neither build nor server ever started;
\* with node_modules present no install process is spawned.
C6_InstallBeforeBuild ==
  /\ nodeModules => ~Spawned("install")
  /\ (~nodeModules /\ procs # << >>) => procs[1] = "install"
  /\ (installRes # NoRun /\ ~installRes.rejected /\ (installRes.timedOut \/ installRes.code # 0)) =>
        /\ pc = "thrown"
        /\ err.code = ErrInstall
        /\ IF installRes.timedOut
           THEN err.has = {"step", "timeoutMs"} /\ err.timeoutMs = InstallTimeoutMs
           ELSE err.exitCode = installRes.code
        /\ ~Spawned("build")
        /\ ~ServerSpawned

C6_Witness == pc = "thrown" /\ ~nodeModules /\ installRes # NoRun /\ installRes.code = 1

\* C7: when getPort rejects, diff() goes on with port 3100: the build is
\* run, and the server that is spawned after a successful build is bound to
\* port 3100.
C7_DefaultPortOnDiscoveryFailure ==
  getPortRejected =>
     /\ port = DefaultPort
     /\ Spawned("build")
     /\ serverProc # NoProc => serverProc.port = DefaultPort
     /\ (buildRes # NoRun /\ ~buildRes.rejected /\ BuildError(buildRes) = NoError) => ServerSpawned

C7_Witness == getPortRejected /\ serverProc = spawnServer(DefaultPort)

C9_DegradedSignalEmitted ==
  \A j \in DOMAIN obs :
     (Done(j) /\ obs[j].render = "fail") =>
        \E i \in DOMAIN progress : progress[i].route = j /\ progress[i].phase # "route"

\* C10: a route whose baseline cannot be read contributes nothing: perRoute
\* is exactly the results of the routes with a readable baseline (and
\* writable artifacts), in order, each depending on its own route alone; the
\* summary is the summary of those; skipping raises no error, and when
\* diff() returns every route of the list went through its comparison step.
C10_MissingBaselineIsSkipped ==
  /\ perRoute = ExpectedUpTo(NDone)
  /\ pc \in {"report", "returned"} =>
        /\ NDone = Len(analysis.routes)
        /\ result.perRoute = ExpectedUpTo(Len(analysis.routes))
        /\ result.summary = Summarize(ExpectedUpTo(Len(analysis.routes)), input.threshold)
  /\ (pc = "thrown" /\ obs # << >>) => analysis.routes[idx].sourceUrl = Undefined

C10_Witness ==
  /\ pc = "returned"
  /\ \E j \in DOMAIN obs :
       /\ obs[j].baseline = "missing"
       /\ j + 1 \in DOMAIN obs
       /\ Included(j + 1)
       /\ result.summary.passed + result.summary.failed = 1

\* ---------------------------------------------------------------- C11
\* The function fn has returned.
Returned(name) == fn = name /\ ret # << >>

\* Pixel (x, y) of an image, counted from 0.
PixelAt(png, x, y) == png.data[y * png.width + x + 1]

\* C11: the diffRatio of a route is changed / total, where total is the
\* width * height of the cropped region and changed the number of its pixels
\* that differ; it lies between 0 and 1; and it is 0, with no division by
\* zero, when total is 0.
C11_DiffRatioInRange ==
  Returned("RouteDiff") =>
    LET out == ret[1]
        width == Min(args.baselinePng.width, args.actualPng.width)
        height == Min(args.baselinePng.height, args.actualPng.height)
        differing == { xy \in (0..(width - 1)) \X (0..(height - 1)) :
                         PixelAt(args.baselinePng, xy[1], xy[2])
                           # PixelAt(args.actualPng, xy[1], xy[2]) }
        ratio == out.diffRatio
    IN  /\ out.total = width * height
        /\ out.total = out.baselineCrop.width * out.baselineCrop.height
        /\ out.total = out.actualCrop.width * out.actualCrop.height
        /\ out.changed = Cardinality(differing)
        /\ ratio.den > 0
        /\ 0 <= ratio.num
        /\ ratio.num <= ratio.den
        /\ out.total # 0 => ratio.num * out.total = out.changed * ratio.den
        /\ out.total = 0 => ratio.num = 0

C11_Witness ==
  /\ Returned("RouteDiff")
  /\ args.baselinePng.width # args.actualPng.width
  /\ 0 < ret[1].diffRatio.num
  /\ ret[1].diffRatio.num < ret[1].diffRatio.den

\* ---------------------------------------------------------------- C12
RECURSIVE CountPassed(_, _)
CountPassed(rs, threshold) ==
  IF rs = << >> THEN 0
  ELSE (IF Head(rs).diffRatio.num * threshold.den <= threshold.num * Head(rs).diffRatio.den
        THEN 1 ELSE 0) + CountPassed(Tail(rs), threshold)

RECURSIVE DenProduct(_)
DenProduct(rs) ==
  IF rs = << >> THEN 1 ELSE Head(rs).diffRatio.den * DenProduct(Tail(rs))

\* The sum of the ratios, in units of 1/d (d a multiple of every denominator).
RECURSIVE ScaledSum(_, _)
ScaledSum(rs, d) ==
  IF rs = << >> THEN 0
  ELSE Head(rs).diffRatio.num * (d \div Head(rs).diffRatio.den) + ScaledSum(Tail(rs), d)

\* avg is the arithmetic mean of the ratios of rs, or 0 when rs is empty.
IsMean(avg, rs) ==
  /\ avg.den # 0
  /\ IF rs = << >> THEN avg.num = 0
     ELSE avg.num * Len(rs) * DenProduct(rs) = ScaledSum(rs, DenProduct(rs)) * avg.den

\* C12: in every result diff() returns, passed is the number of perRoute
\* entries with diffRatio <= threshold, passed + failed is the length of
\* perRoute, and avg is the arithmetic mean of the diffRatio values, 0 when
\* perRoute is empty.
C12_SummaryMatchesPerRoute ==
  pc = "returned" =>
    /\ result.perRoute = perRoute
    /\ result.summary.passed = CountPassed(result.perRoute, input.threshold)
    /\ result.summary.passed + result.summary.failed = Len(result.perRoute)
    /\ result.summary.failed >= 0
    /\ IsMean(result.summary.avg, result.perRoute)

C12_Witness ==
  /\ pc = "returned"
  /\ result.summary.passed = 1
  /\ result.summary.failed = 1
  /\ \E k \in DOMAIN result.perRoute :
       /\ result.perRoute[k].diffRatio.num # 0
       /\ result.perRoute[k].diffRatio.num * input.threshold.den
            = input.threshold.num * result.perRoute[k].diffRatio.den

\* ---------------------------------------------------------------- C13
RECURSIVE IsSubseq(_, _)
IsSubseq(s, t) ==
  IF s = << >> THEN TRUE
  ELSE IF t = << >> THEN FALSE
  ELSE IF Head(s) = Head(t) THEN IsSubseq(Tail(s), Tail(t))
  ELSE IsSubseq(s, Tail(t))

\* The routes of a list of entries, in its order.
RoutesOf(list) == [i \in DOMAIN list |-> list[i].route]

\* Route j is finished: it went through its comparison step, and when it
\* has a result all five of its artifact files exist.
Finished(j) ==
  /\ Done(j)
  /\ Included(j) => Artifacts(routeToFolder(analysis.routes[j].route), Len(ArtifactNames)) \subseteq files

\* C13: routes are processed one at a time in the order of the route list:
\* while route idx is rendered or compared every earlier route is finished
\* (its artifacts written, or the route skipped) and no later route has been
\* started; the per-route progress events come in list order; and the routes
\* of perRoute are a subsequence of the route list.
C13_RoutesInOrder ==
  /\ pc \in {"render", "compare"} =>
        /\ idx \in DOMAIN analysis.routes
        /\ \A j \in 1..(idx - 1) : j \in DOMAIN obs /\ Finished(j)
        /\ Len(obs) <= idx
  /\ \A j \in DOMAIN obs : j <= Len(analysis.routes) /\ (Done(j) => Finished(j))
  /\ \A i \in RouteEvents : progress[i].route <= Len(obs) + 1
  /\ \A i1, i2 \in RouteEvents : i1 < i2 => progress[i1].route < progress[i2].route
  /\ Len(perRoute) <= NDone
  /\ IsSubseq(RoutesOf(perRoute), RoutesOf(analysis.routes))

C13_Witness ==
  /\ pc = "returned"
  /\ Len(perRoute) = 2
  /\ perRoute[1].route # perRoute[2].route
  /\ Cardinality(RouteEvents) = 2

\* ---------------------------------------------------------------- C14
\* crop is the width x height region of png at offset (0, 0), unscaled.
IsCropOf(crop, png, width, height) ==
  /\ crop.width = width
  /\ crop.height = height
  /\ Len(crop.data) = width * height
  /\ \A x \in 0..(width - 1), y \in 0..(height - 1) : PixelAt(crop, x, y) = PixelAt(png, x, y)
  /\ (png.width = width /\ png.height = height) => crop = png

\* C14: the two images are compared over width = min of the widths and
\* height = min of the heights; each cropped image has that size and holds
\* at every (x, y) the pixel (x, y) of its source (no scaling); an image
\* already of that size is passed through unchanged; and the images handed
\* to pixelmatch have equal sizes, so that it does not throw.
C14_CropToCommonSize ==
  Returned("RouteDiff") =>
    LET out == ret[1]
        width == Min(args.baselinePng.width, args.actualPng.width)
        height == Min(args.baselinePng.height, args.actualPng.height)
    IN  /\ out.width = width
        /\ out.height = height
        /\ IsCropOf(out.baselineCrop, args.baselinePng, width, height)
        /\ IsCropOf(out.actualCrop, args.actualPng, width, height)
        /\ Len(out.baselineCrop.data) = Len(out.actualCrop.data)
        /\ Len(out.diffPng.data) = 4 * width * height

C14_Witness ==
  /\ Returned("RouteDiff")
  /\ args.baselinePng.width < args.actualPng.width
  /\ args.baselinePng.height > args.actualPng.height
  /\ ret[1].baselineCrop # args.baselinePng
  /\ ret[1].actualCrop # args.actualPng
  /\ ret[1].width * ret[1].height > 0

\* ---------------------------------------------------------------- C15
\* C15: a baseline compared with a pixel-identical actual image has
\* diffRatio 0 and a heatmap of 16 cells, each with ratio 0; the summary of
\* that single route at threshold 0.01 is passed = 1, failed = 0, avg = 0.
C15_IdenticalImagesDiffToZero ==
  (Returned("RouteDiff") /\ args.baselinePng = args.actualPng) =>
    LET out == ret[1]
        summary == Summarize(<<[route |-> <<"/">>, diffRatio |-> out.diffRatio]>>, Frac(1, 100))
    IN  /\ out.diffRatio.num = 0
        /\ out.diffRatio.den # 0
        /\ out.changed = 0
        /\ Len(out.heatmap) = 16
        /\ \A i \in DOMAIN out.heatmap :
             out.heatmap[i].ratio.num = 0 /\ out.heatmap[i].ratio.den # 0
        /\ summary.passed = 1
        /\ summary.failed = 0
        /\ summary.avg.num = 0
        /\ summary.avg.den # 0

C15_Witness ==
  /\ Returned("RouteDiff")
  /\ args.baselinePng = args.actualPng
  /\ args.baselinePng.width = 2
  /\ args.baselinePng.height = 2
  /\ \E i, j \in DOMAIN args.baselinePng.data : args.baselinePng.data[i] # args.baselinePng.data[j]

\* ---------------------------------------------------------------- C16
\* The box of a zone (in half pixels) has no point inside the image.
OutsideX(zone, width) == zone.bounds.x + zone.bounds.width <= 0 \/ zone.bounds.x >= 2 * width
OutsideY(zone, height) == zone.bounds.y + zone.bounds.height <= 0 \/ zone.bounds.y >= 2 * height
Reported(zone) == \E i \in DOMAIN ret[1] : ret[1][i].selector = zone.selector

\* C16: a zone whose bounding box lies entirely outside the image, in x, in
\* y or in both, is not among the reported zones, and every reported zone
\* has a clipped box of positive area.  (Stated as claimed; the code keeps a
\* zone that is outside in both directions.)
C16_OutsideZonesDropped ==
  Returned("summarizeZones") =>
    /\ \A i \in DOMAIN args.zones :
         (OutsideX(args.zones[i], args.width) \/ OutsideY(args.zones[i], args.height))
            => ~Reported(args.zones[i])
    /\ \A i \in DOMAIN ret[1] : ret[1][i].bounds.width * ret[1][i].bounds.height > 0

\* ---------------------------------------------------------------- C17
\* C17: routeToFolder maps '/' and the empty route to 'root', and any other
\* route to the route without one leading slash, every character outside
\* [a-zA-Z0-9_-] (every '/' included) replaced by '_'; '/a/b' gives 'a_b';
\* the result is never empty and holds only characters of [a-zA-Z0-9_-], so
\* no '/' and no '.'.
C17_RouteToFolderIsSafe ==
  Returned("routeToFolder") =>
    LET route == args.route
        folder == ret[1]
        stripped == IF route # << >> /\ route[1] = "/" THEN SubSeq(route, 2, Len(route)) ELSE route
    IN  /\ IF route = <<"/">> \/ route = << >>
           THEN folder = <<"r", "o", "o", "t">>
           ELSE folder = [i \in 1..Len(stripped) |->
                            IF stripped[i] \in SafeChars THEN stripped[i] ELSE "_"]
        /\ route = <<"/", "a", "/", "b">> => folder = <<"a", "_", "b">>
        /\ folder # << >>
        /\ \A i \in DOMAIN folder : folder[i] \in SafeChars /\ folder[i] \notin {"/", "."}

C17_Witness ==
  /\ Returned("routeToFolder")
  /\ args.route = <<"/", "a", "/", "b">>
  /\ ret[1] = <<"a", "_", "b">>

\* ---------------------------------------------------------------- C18
Warnings == { i \in DOMAIN progress : progress[i].phase = "warn" }
ReportWritten == <<<< >>, "index.html">> \in files

\* C18: when the report was requested and rendering it threw, diff() has
\* returned the perRoute and summary that the routes alone determine (those
\* of a run without report), with reportPath undefined, after emitting one
\* warning as its last progress event; reportPath is set only when the
\* report was requested and index.html was written; once the summary
\* is computed diff() does not throw.
C18_ReportFailureIsAWarning ==
  /\ pc = "returned" =>
       /\ result.perRoute = ExpectedUpTo(Len(analysis.routes))
       /\ result.summary = Summarize(ExpectedUpTo(Len(analysis.routes)), input.threshold)
       /\ (input.renderReport /\ result.reportPath = Undefined) =>
             /\ Cardinality(Warnings) = 1
             /\ progress[Len(progress)].phase = "warn"
             /\ ~ReportWritten
       /\ result.reportPath # Undefined =>
             /\ input.renderReport
             /\ ReportWritten
             /\ Warnings = {}
       /\ ~input.renderReport => (result.reportPath = Undefined /\ Warnings = {} /\ ~ReportWritten)
  /\ pc = "report" => input.renderReport
  /\ pc = "thrown" => (result = NoResult /\ Warnings = {} /\ ~ReportWritten)

C18_Witness ==
  /\ pc = "returned"
  /\ input.renderReport
  /\ result.reportPath = Undefined
  /\ Warnings # {}
  /\ Len(result.perRoute) = 2

\* ---------------------------------------------------------------- C19
\* C19: isDiffPixel is true exactly when the alpha channel is not 0 and the
\* colour either matches one of the four highlight signatures (red, green,
\* blue, yellow) or is not near-white (not all of r, g, b >= 220); checked
\* for byte values on both sides of each threshold.
C19_IsDiffPixelClassifies ==
  Returned("isDiffPixel") =>
    LET r == args.data[args.idx + 1]
        g == args.data[args.idx + 2]
        b == args.data[args.idx + 3]
        a == args.data[args.idx + 4]
        red == r >= 200 /\ g <= 80 /\ b <= 80
        green == g >= 200 /\ r <= 80 /\ b <= 80
        blue == b >= 200 /\ r <= 80 /\ g <= 80
        yellow == r >= 200 /\ g >= 200 /\ b <= 80
        nearWhite == r >= 220 /\ g >= 220 /\ b >= 220
    IN  ret[1] = (a # 0 /\ (red \/ green \/ blue \/ yellow \/ ~nearWhite))

C19_Witness ==
  /\ Returned("isDiffPixel")
  /\ args.idx = 4
  /\ SubSeq(args.data, 5, 8) = <<200, 200, 80, 255>>
  /\ ret[1] = TRUE

\* ---------------------------------------------------------------- C20
\* The cell the claim gives for pixel (x, y) of a width x height image.
ClaimedCell(x, y, width, height) ==
  [row |-> Min(3, (4 * y) \div height), col |-> Min(3, (4 * x) \div width)]

\* The pixels of the image that the claim puts in cell (row, col).
PixelsOfCell(row, col, width, height) ==
  { xy \in (0..(width - 1)) \X (0..(height - 1)) :
      ClaimedCell(xy[1], xy[2], width, height) = [row |-> row, col |-> col] }

\* The red pixels among them.
RedPixels(pixels, png) ==
  { xy \in pixels :
      /\ png.data[4 * (xy[2] * png.width + xy[1]) + 1] = 255
      /\ png.data[4 * (xy[2] * png.width + xy[1]) + 2] = 0 }

RECURSIVE SumUpTo(_, _)
SumUpTo(f, n) == IF n < 0 THEN 0 ELSE f[n] + SumUpTo(f, n - 1)

\* C20: buildHeatmap with a 4 x 4 grid returns 16 cells named r{row}c{col}
\* in row-major order; every pixel (x, y) is counted in exactly the cell
\* row = min(3, floor(y / height * 4)), col = min(3, floor(x / width * 4)),
\* so that the cell totals sum to width * height; and the ratio of a cell is
\* changed / total (0 for an empty cell), between 0 and 1.
C20_HeatmapGrid ==
  Returned("buildHeatmap") =>
    LET cells == ret[1]
        width == args.width
        height == args.height
        totals == cellTotals(args.diffPng, width, height, 4, 4)
        names == <<"0", "1", "2", "3">>
    IN  /\ Len(cells) = 16
        /\ cells[1].cell = <<"r", "0", "c", "0">>
        /\ cells[2].cell = <<"r", "0", "c", "1">>
        /\ cells[16].cell = <<"r", "3", "c", "3">>
        /\ SumUpTo(totals, 15) = width * height
        /\ \A row \in 0..3, col \in 0..3 :
             LET cell == cells[row * 4 + col + 1]
                 pixels == PixelsOfCell(row, col, width, height)
             IN  /\ cell.cell = <<"r", names[row + 1], "c", names[col + 1]>>
                 /\ totals[row * 4 + col] = Cardinality(pixels)
                 /\ cell.ratio.den > 0
                 /\ 0 <= cell.ratio.num
                 /\ cell.ratio.num <= cell.ratio.den
                 /\ IF pixels = {} THEN cell.ratio.num = 0
                    ELSE cell.ratio.num * Cardinality(pixels)
                           = Cardinality(RedPixels(pixels, args.diffPng)) * cell.ratio.den

C20_Witness ==
  /\ Returned("buildHeatmap")
  /\ args.width = 5
  /\ args.height = 3
  /\ \E i \in DOMAIN ret[1] : 0 < ret[1][i].ratio.num /\ ret[1][i].ratio.num < ret[1][i].ratio.den

\* ---------------------------------------------------------------- C21
\* Every cell of the heatmap's grid counted at least one pixel.
NoCellEmpty(diffPng, width, height) ==
  \A cellIndex \in 0..15 : cellTotals(diffPng, width, height, 4, 4)[cellIndex] >= 1

\* C21 as claimed: for every diff image with width > 0 and height > 0, each
\* of the 16 cells has a pixel total of at least 1.  (Violated: an image
\* narrower or shorter than 4 pixels leaves cells empty.)
C21_AsClaimed ==
  (Returned("buildHeatmap") /\ args.width > 0 /\ args.height > 0) =>
    NoCellEmpty(args.diffPng, args.width, args.height)

\* C21 (amended): for a diff image with width > 0 and height > 0, no cell of
\* the 4 x 4 grid is empty exactly when the image is at least 4 pixels wide
\* and 4 pixels high; an empty cell is reported with ratio 0.
C21_NoEmptyCellFromFourPixels ==
  (Returned("buildHeatmap") /\ args.width > 0 /\ args.height > 0) =>
    /\ NoCellEmpty(args.diffPng, args.width, args.height) <=> (args.width >= 4 /\ args.height >= 4)
    /\ \A i \in DOMAIN ret[1] :
         cellTotals(args.diffPng, args.width, args.height, 4, 4)[i - 1] = 0
            => ret[1][i].ratio = Frac(0, 1)

C21_Witness ==
  /\ Returned("buildHeatmap")
  /\ args.width = 5
  /\ args.height = 4
  /\ NoCellEmpty(args.diffPng, args.width, args.height)
  /\ \A i \in DOMAIN ret[1] : ret[1][i].ratio.num > 0

\* ---------------------------------------------------------------- C22
\* The changed-classified pixels of the diff image inside a reported box.
ChangedInBox(diffPng, width, bounds) ==
  Cardinality({ p \in PixelIndexes(diffPng) :
                  /\ isDiffPixel(diffPng.data, 4 * p)
                  /\ (p % width) >= bounds.x /\ (p % width) < bounds.x + bounds.width
                  /\ (p \div width) >= bounds.y /\ (p \div width) < bounds.y + bounds.height })

\* The position in the captured list of the zone reported at position i.
CaptureIndex(i) == CHOOSE k \in DOMAIN args.zones : args.zones[k].selector = ret[1][i].selector

\* The reported quotient is changed / area over the reported (clipped) box.
RatioOverClippedBox(diffPng, width, zone) ==
  LET area == zone.bounds.width * zone.bounds.height
  IN  /\ area > 0
      /\ zone.diffRatio.num * area = ChangedInBox(diffPng, width, zone.bounds) * zone.diffRatio.den
      /\ zone.diffRatio.num >= 0
      /\ zone.diffRatio.num <= zone.diffRatio.den

\* C22: every reported zone has diffRatio = changed pixels inside its clipped
\* box / area of that box, a number in [0, 1]; at most 12 zones are reported,
\* sorted by non-increasing ratio, zones of equal ratio in capture order.
\* (Stated as claimed; a zone outside the image in both directions is
\* reported with a clipped box of area 0.)
C22_ZoneRatios ==
  Returned("summarizeZones") =>
    /\ Len(ret[1]) <= 12
    /\ \A i \in DOMAIN ret[1] : RatioOverClippedBox(args.diffPng, args.width, ret[1][i])
    /\ \A i, j \in DOMAIN ret[1] :
         i < j => /\ FracLeq(ret[1][j].diffRatio, ret[1][i].diffRatio)
                  /\ FracLeq(ret[1][i].diffRatio, ret[1][j].diffRatio)
                       => CaptureIndex(i) < CaptureIndex(j)

\* The same statement for the zones whose clipped box has an area.
ZoneRatiosWhereArea ==
  Returned("summarizeZones") =>
    /\ Len(ret[1]) <= 12
    /\ \A i \in DOMAIN ret[1] :
         ret[1][i].bounds.width * ret[1][i].bounds.height > 0
           => RatioOverClippedBox(args.diffPng, args.width, ret[1][i])
    /\ \A i, j \in DOMAIN ret[1] :
         i < j => /\ FracLeq(ret[1][j].diffRatio, ret[1][i].diffRatio)
                  /\ FracLeq(ret[1][i].diffRatio, ret[1][j].diffRatio)
                       => CaptureIndex(i) < CaptureIndex(j)

\* ---------------------------------------------------------------- C23
\* The dedup key as the claim names it: tag, id, test-id, first 6 classes.
KeyTuple(el) == <<el.tagName, el.id, el.dataTestId, Slice(el.classList, 6)>>
Large(el) == el.rect.width >= 32 /\ el.rect.height >= 32
\* The element of the page a captured zone was taken from.
NodeOf(zone) == args.nodes[zone.bounds.y]

ShownClasses(el) == Slice(el.classList, 3)

\* The label the claim describes: tag, id, at most 3 class names, test-id
\* and role, each present part once, in this order.
ClaimedLabel(el) ==
  Join(Pushed(<<toLowerCase(el.tagName),
                IF el.id # Absent THEN <<"#">> \o el.id ELSE << >>,
                IF ShownClasses(el) # << >>
                THEN <<".">> \o Join(ShownClasses(el), <<".">>) ELSE << >>,
                IF el.dataTestId # Absent
                THEN <<"[", "d", "a", "t", "a", "-", "t", "e", "s", "t", "i", "d", "=">>
                       \o el.dataTestId \o <<"]">>
                ELSE << >>,
                IF el.role # Absent
                THEN <<"[", "r", "o", "l", "e", "=">> \o el.role \o <<"]">>
                ELSE << >>>>), <<" ">>)

\* The selector the claim describes: '#id', else tag[data-testid="..."], else
\* the tag with at most 3 class names, else the tag name.
ClaimedSelector(el) ==
  IF el.id # Absent THEN <<"#">> \o el.id
  ELSE IF el.dataTestId # Absent
  THEN toLowerCase(el.tagName)
         \o <<"[", "d", "a", "t", "a", "-", "t", "e", "s", "t", "i", "d", "=", "\"">>
         \o el.dataTestId \o <<"\"", "]">>
  ELSE IF ShownClasses(el) # << >>
  THEN toLowerCase(el.tagName) \o Join(DotEach(ShownClasses(el)), << >>)
  ELSE toLowerCase(el.tagName)

\* C24: every captured zone has the label built from its tag, id, at most 3
\* class names, test-id and role, and the selector '#id', else
\* tag[data-testid=...], else tag with at most 3 classes, else the tag name.
\* (Stated as claimed; the label holds up to 6 class names.)
C24_LabelAndSelector ==
  Returned("captureDomZones") =>
    \A i \in DOMAIN ret[1] :
      /\ ret[1][i].label = ClaimedLabel(NodeOf(ret[1][i]))
      /\ ret[1][i].selector = ClaimedSelector(NodeOf(ret[1][i]))

\* The selector alone is as claimed, and the label is as claimed for the
\* elements of at most 3 classes.
SelectorAsClaimed ==
  Returned("captureDomZones") =>
    \A i \in DOMAIN ret[1] :
      /\ ret[1][i].selector = ClaimedSelector(NodeOf(ret[1][i]))
      /\ Len(NodeOf(ret[1][i]).classList) <= 3
           => ret[1][i].label = ClaimedLabel(NodeOf(ret[1][i]))

\* ---------------------------------------------------------------- C28
\* A browser that was launched and not closed is still open.
BrowserOpen(outcome) == outcome.launched /\ ~outcome.closed

\* C28: whatever the outcome of context creation, navigation, zone capture
\* and screenshot, no browser that renderActual launched is open when it
\* returns or throws.  (Stated as claimed; a step that rejects after the
\* launch skips both close calls.)
C28_BrowserClosed ==
  Returned("renderActual") => ~BrowserOpen(ret[1])

\* When every step resolves the browser is closed.
BrowserClosedOnSuccess ==
  (Returned("renderActual") /\ ~ret[1].threw) => ~BrowserOpen(ret[1])

\* ---------------------------------------------------------------- C29
\* The route folders of the routes in perRoute.
ResultFolders == { routeToFolder(perRoute[k].route) : k \in DOMAIN perRoute }

\* C29: at the end of a run every route folder that holds an artifact file
\* belongs to a route of perRoute.  (Stated as claimed; renderActual writes
\* actual.png before the baseline is read.)
C29_NoOrphanArtifacts ==
  Terminal => \A f \in files : f[1] # << >> => f[1] \in ResultFolders

\* A run that rendered a route, found no baseline for it and skipped it.
OrphanAfterSkip ==
  /\ pc = "returned"
  /\ Len(obs) = 1
  /\ obs[1].render = "ok"
  /\ obs[1].baseline = "missing"
  /\ perRoute = << >>
  /\ files = {<<routeToFolder(analysis.routes[1].route), "actual.png">>}

\* ---------------------------------------------------------------- C25
\* Entry j of the route list put a file into its route folder: the
\* screenshot of its render, or the artifacts of its comparison.
WroteToFolder(j) == obs[j].render = "ok" \/ Included(j)
FolderOf(j) == routeToFolder(analysis.routes[j].route)

\* C25: every route folder receives files from at most one entry of the
\* route list.  (Stated as claimed; routeToFolder maps different routes to
\* one folder, and a list may name a route twice.)
C25_FolderWrittenOnce ==
  \A j, k \in DOMAIN obs :
    (j < k /\ WroteToFolder(j) /\ WroteToFolder(k)) => FolderOf(j) # FolderOf(k)

\* Two entries of different routes have both written their artifacts into
\* the same folder.
DifferentRoutesOneFolder ==
  /\ pc = "returned"
  /\ Len(perRoute) = 2
  /\ perRoute[1].route # perRoute[2].route
  /\ FolderOf(1) = FolderOf(2)
  /\ Cardinality(files) = Len(ArtifactNames)

\* ---------------------------------------------------------------- C26
\* The positions of the progress events of a phase.
EventsOf(phase) == { i \in DOMAIN progress : progress[i].phase = phase }
Once(phase) == Cardinality(EventsOf(phase)) = 1
Precedes(a, b) == \A i \in EventsOf(a), j \in EventsOf(b) : i < j

\* C26: in a successful run the build completes, then the server is
\* spawned, then readiness is observed, then all routes are rendered and
\* compared, then the server is killed, then the summary is computed, then
\* the report is rendered: a render happens only after readiness and before
\* the kill, and the report is never rendered while the server is alive.
C26_PhasesInOrder ==
  /\ ServerSpawned => Once("build-complete") /\ Precedes("build-complete", "serve")
  /\ readyOk => ServerSpawned /\ Precedes("serve", "serve-ready")
  /\ pc = "render" => readyOk /\ serverProc # NoProc /\ kills = 0
  /\ obs # << >> => readyOk /\ Precedes("serve-ready", "route")
  /\ pc \in {"loop", "render", "compare"} => kills = 0 /\ EventsOf("serve-stop") = {}
  /\ pc = "report" =>
       /\ serverProc = NoProc
       /\ kills = 1
       /\ NDone = Len(analysis.routes)
       /\ result.perRoute = perRoute
       /\ result.summary = Summarize(perRoute, input.threshold)
  /\ ReportWritten => pc = "returned" /\ serverProc = NoProc
  /\ pc = "returned" =>
       /\ Once("build-complete") /\ Once("serve") /\ Once("serve-ready") /\ Once("serve-stop")
       /\ Precedes("build-complete", "serve")
       /\ Precedes("serve", "serve-ready")
       /\ Precedes("serve-ready", "route")
       /\ Precedes("route", "serve-stop")
       /\ Precedes("serve-stop", "warn")
       /\ Cardinality(EventsOf("route")) = Len(analysis.routes)
       /\ NDone = Len(analysis.routes)
       /\ serverProc = NoProc
       /\ kills = 1

C26_Witness ==
  /\ pc = "returned"
  /\ ReportWritten
  /\ Len(perRoute) = 2
  /\ Cardinality(EventsOf("route")) = 2

\* ---------------------------------------------------------------- C30
\* The build child was terminated by a signal that run's own timer did not
\* send: its close event carries a null code.
BuildKilledFromOutside ==
  buildEnd.event = "close" /\ buildEnd.signal /\ ~buildEnd.timer

\* C30: when the child is terminated by a signal without run's own timer
\* having fired, run() resolves with code 0 and timedOut = false, and diff()
\* takes the build for successful: it spawns the server and waits for it.
C30_KilledBuildCountsAsSuccess ==
  BuildKilledFromOutside =>
    /\ ~buildRes.rejected
    /\ buildRes.code = 0
    /\ ~buildRes.timedOut
    /\ BuildError(buildRes) = NoError
    /\ ServerSpawned
    /\ Once("build-complete")
    /\ pc \in {"waitForHttp", "fetch", "sleep", "thrown"}
    /\ pc = "thrown" => ReadinessTimedOut

C30_Witness ==
  /\ BuildKilledFromOutside
  /\ pc = "fetch"
  /\ serverProc = spawnServer(port)
  /\ buildRes.code = 0

\* ---------------------------------------------------------------- C27
\* waitForHttp is under way.
Waiting == pc \in {"waitForHttp", "fetch", "sleep"}

\* C27: waitForHttp throws the readiness timeout once the total timeout has
\* elapsed, also when the server accepts the connection and does not
\* answer: while it is under way, the time since its start stays within the
\* timeout plus the one retry interval of the last sleep.  (Stated as
\* claimed; a fetch is not given up when the timeout elapses.)
C27_TimeoutIsHonoured ==
  Waiting => elapsed <= ReadyTimeoutMs + RetryIntervalMs

\* Every step of diff() that can be taken is taken: every fetch settles and
\* every sleep ends.
SpecFair == Spec /\ WF_vars(Next)

\* When every fetch settles, waitForHttp returns or throws.
WaitTerminates == Waiting ~> (pc \in {"loop", "thrown"})

====
